---- MODULE Spec2Model ----
(***************************************************************************)
(* Child-process wrapper of nimdebugger: src/src/process.c (POSIX backend)  *)
(* and src/src/process_windows.c (Windows backend).                         *)
(*                                                                          *)
(* The parent is one thread that calls the API; a call in progress is at    *)
(* position pc with its locals in fr, and the children run concurrently.    *)
(* The operating system is modelled as far as the code depends on it: the   *)
(* parent's descriptor/handle table, each child's descriptor table, the     *)
(* pipes' buffers and the process table.                                    *)
(***************************************************************************)
EXTENDS Integers, Sequences, FiniteSets, TLC

\* ---------------------------------------------------------------- bounds
MaxSpawn == 2
\* number of start_process calls in a run
MaxPid == 2
\* size of the process-id pool (ids are reused once a child is reaped)
MaxFd == 15
\* size of the parent's descriptor/handle table
MaxOut == 2
\* bytes a child writes to its output streams
MaxWrite == 2
\* largest length passed to write_to_process
MaxBuf == 3
\* largest buffer_size passed to a read operation
PipeCap == 2
\* capacity of a pipe's kernel buffer

\* longest cmd string
MaxCmdLen == 1
\* longest argument string
MaxArgLen == 3

\* ------------------------------------------------------- program constants
STDIN_FILENO == 0
STDOUT_FILENO == 1
STDERR_FILENO == 2

NULL == 0
EXIT_FAILURE == 1
\* the largest value of an int (int length, int pos)
INT_MAX == 2147483647

\* a value the code does not determine: a memory cell nothing has been
\* stored into, the exit status a program chooses
JUNK == -1
Backends == {"posix", "windows"}
Streams == {"in", "out", "err"}
Spawns == 1..MaxSpawn
Fds == 0..(MaxFd - 1)
Pids == 1..MaxPid
BufSizes == 1..MaxBuf
Timeouts == {-1, 0}
\* timeout_ms: -1 waits without bound, 0 (like any value >= 0) may time out

VARIABLES
    backend,    \* which of the two source files was built
    fdt,        \* parent's descriptor/handle table: Fds -> object
    cfd,        \* cfd[s]: descriptor table of the child of spawn s
    pipebuf,    \* pipebuf[s][st]: bytes buffered in pipe st of spawn s
    child,      \* child[s]: [st, pid] process-table entry of spawn s's child
    hnd,        \* hnd[s]: the ProcessHandle allocated by spawn s
    nspawn,     \* number of start_process calls made
    pc,         \* position of the parent: "idle", inside a call, or "ret"
                \* (a call has returned and the caller looks at its result)
    fr,         \* locals of the current call
    ret,        \* [op, h, val]: the call that returned and its value
    buffer,     \* the caller's read buffer, cells 0..MaxBuf-1
    source,     \* the caller's *source variable
    wrote,      \* wrote[s][st]: number of bytes the child wrote to st
    got,        \* got[s][st]: concatenation of the data the reads returned
    everFalse,  \* everFalse[s]: is_running(s) has returned 0
    cmd,        \* start_process's cmd argument, a string
    args,       \* start_process's args argument, a list of strings
    cmdline,    \* the command line create_command_line_ex built
    argv,       \* the arguments the child's runtime splits cmdline into
    qpc,        \* position of the command-line construction
    sz          \* create_command_line_ex's buffer: the padding of its input,
                \* length, the size malloc gave, the bytes written

vars == <<backend, fdt, cfd, pipebuf, child, hnd, nspawn, pc, fr, ret,
          buffer, source, wrote, got, everFalse, cmd, args, cmdline, argv, qpc,
          sz>>

\* the command-line construction's variables
qvars == <<cmd, args, cmdline, argv, qpc, sz>>

osvars == <<fdt, cfd, pipebuf, child>>

\* ------------------------------------------------------------ OS objects
\* An entry of a descriptor/handle table: kind k, the spawn s and stream st
\* it belongs to, the pipe end e ("r" or "w"), and the Windows inherit flag.
Obj(k, s, st, e, inh) == [k |-> k, s |-> s, st |-> st, e |-> e, inh |-> inh]
Free == Obj("free", 0, "-", "-", FALSE)
Tty == Obj("tty", 0, "-", "-", FALSE)
PipeEnd(s, st, e, inh) == Obj("pipe", s, st, e, inh)
ProcH(s) == Obj("proc", s, "-", "-", FALSE)
ThreadH(s) == Obj("thread", s, "-", "-", FALSE)

IsEnd(o, s, st, e) == o.k = "pipe" /\ o.s = s /\ o.st = st /\ o.e = e

EmptyTable == [f \in Fds |-> Free]
StdTable == [f \in Fds |-> IF f <= STDERR_FILENO THEN Tty ELSE Free]

FreeFds(t) == {f \in Fds : t[f] = Free}
NFree(t) == Cardinality(FreeFds(t))
LowestFree(t) == CHOOSE f \in FreeFds(t) : \A g \in FreeFds(t) : f <= g

\* close(fd) / CloseHandle(h) on table t
CloseFd(t, f) == IF f \in Fds THEN [t EXCEPT ![f] = Free] ELSE t

\* dup2(old, new) on table t
Dup2(t, old, new) ==
    IF old \in Fds /\ new \in Fds /\ t[old] # Free
    THEN [t EXCEPT ![new] = t[old]]
    ELSE t

\* pipe(fds) / CreatePipe(&rd, &wr, &saAttr, 0): both ends take the lowest
\* free slots, the read end first.  Result: [t, rd, wr].
MakePipe(t, s, st, inh) ==
    LET rd == LowestFree(t)
        t1 == [t EXCEPT ![rd] = PipeEnd(s, st, "r", inh)]
        wr == LowestFree(t1)
        t2 == [t1 EXCEPT ![wr] = PipeEnd(s, st, "w", inh)]
    IN  [t |-> t2, rd |-> rd, wr |-> wr]

\* SetHandleInformation(h, HANDLE_FLAG_INHERIT, 0)
ClearInherit(t, f) == [t EXCEPT ![f].inh = FALSE]

\* the tables of the processes that are running
LiveChildren == {c \in Spawns : child[c].st = "running"}

Holds(t, s, st, e) == \E f \in Fds : IsEnd(t[f], s, st, e)

\* some process holds the write (read) end of pipe <<s, st>>
HasWriter(s, st) ==
    \/ Holds(fdt, s, st, "w")
    \/ \E c \in LiveChildren : Holds(cfd[c], s, st, "w")

HasReader(s, st) ==
    \/ Holds(fdt, s, st, "r")
    \/ \E c \in LiveChildren : Holds(cfd[c], s, st, "r")

UsedPids == {child[c].pid : c \in {d \in Spawns : child[d].st \in {"running", "zombie"}}}
FreePids == Pids \ UsedPids

\* fork()/CreateProcess give the child an id no running or unreaped process
\* has.  Ids are opaque, so an id never used before is taken in order.
EverPids == {child[c].pid : c \in {d \in Spawns : child[d].st # "none"}}
NewPids == {p \in FreePids \ EverPids : \A q \in FreePids \ EverPids : p <= q}
PidChoices == (FreePids \cap EverPids) \cup NewPids

\* a child is [st, pid, exec, status]: exec tells whether execvp succeeded
\* ("ok") or failed, status is the exit status where process.c sets it
NoChild == [st |-> "none", pid |-> 0, exec |-> "-", status |-> JUNK, sig |-> "-"]
ExecOutcomes == {"ok", "failed"}
NoHandle == [st |-> "none", pid |-> 0, hProcess |-> -1,
             input_fd |-> -1, output_fd |-> -1, error_fd |-> -1]
\* locals of a call: the handle h, buffer_size S, timeout_ms, the stream st
\* being read, length and total_written of a write with the bytes acc the
\* pipe accepted, the number of bytes a read stored, and the steps log of a
\* close_process call
Frame(op, h) == [op |-> op, h |-> h, S |-> 0, timeout |-> 0, st |-> "-",
                 len |-> 0, total |-> 0, acc |-> <<>>, stored |-> 0,
                 log |-> <<>>]
NoFrame == Frame("none", 0)
NoRet == [op |-> "none", h |-> 0, val |-> 0]

FreshBuffer == [i \in 0..(MaxBuf - 1) |-> JUNK]

Min(a, b) == IF a <= b THEN a ELSE b
Take(q, n) == SubSeq(q, 1, Min(n, Len(q)))
Drop(q, n) == SubSeq(q, Min(n, Len(q)) + 1, Len(q))

\* no command line is under construction
\* no buffer accounting: tok is the token (0: cmd, i: args[i]) that is
\* followed by pad more ordinary characters, length the int of the first
\* pass, alloc the size of the buffer malloc returned (-1: it returned
\* NULL), written the bytes stored into the buffer, terminator included
NoSize == [tok |-> 0, pad |-> 0, length |-> 0, alloc |-> 0, written |-> 0]

QuoteIdle ==
    /\ cmd = <<>> /\ args = <<>> /\ cmdline = <<>> /\ argv = <<>> /\ qpc = "off"
    /\ sz = NoSize

Init ==
    /\ QuoteIdle
    /\ backend \in Backends
    /\ fdt = StdTable
    /\ cfd = [s \in Spawns |-> EmptyTable]
    /\ pipebuf = [s \in Spawns |-> [st \in Streams |-> <<>>]]
    /\ child = [s \in Spawns |-> NoChild]
    /\ hnd = [s \in Spawns |-> NoHandle]
    /\ nspawn = 0
    /\ pc = "idle"
    /\ fr = NoFrame
    /\ ret = NoRet
    /\ buffer = FreshBuffer
    /\ source = JUNK
    /\ wrote = [s \in Spawns |-> [st \in Streams |-> 0]]
    /\ got = [s \in Spawns |-> [st \in Streams |-> <<>>]]
    /\ everFalse = [s \in Spawns |-> FALSE]

\* ---------------------------------------------------------- start_process
CloseAll3(t, a, b, c) == CloseFd(CloseFd(CloseFd(t, a), b), c)

StartResult(res, t, forked, ct, h) ==
    [res |-> res, t |-> t, forked |-> forked, ct |-> ct, h |-> h]

PosixFailPoints == {"pipe1", "pipe2", "pipe3", "fork", "malloc", "none"}

\* the outcomes the descriptor table t and the process table allow
PosixFeasible(t, fail) ==
    CASE fail = "pipe1" -> TRUE
      [] fail = "pipe2" -> NFree(t) >= 2
      [] fail = "pipe3" -> NFree(t) >= 4
      [] fail = "fork" -> NFree(t) >= 6
      [] OTHER -> NFree(t) >= 6 /\ FreePids # {}

\* faulty variant: the write end of the stdout pipe is left open
parent_close_child_ends_keeps_stdout(t, stdin_rd, stdout_wr, stderr_wr) ==
    CloseFd(CloseFd(t, stdin_rd), stderr_wr)

\* process.c lines 52-54: the parent closes the child's ends
parent_close_child_ends(t, stdin_rd, stdout_wr, stderr_wr) ==
    CloseAll3(t, stdin_rd, stdout_wr, stderr_wr)

\* process.c start_process on parent table t, for spawn s, where the first
\* failing call is `fail` and fork returns pid
start_process_posix(t, s, fail, pid) ==
    LET child_stdin == MakePipe(t, s, "in", FALSE)
        child_stdout == MakePipe(child_stdin.t, s, "out", FALSE)
        child_stderr == MakePipe(child_stdout.t, s, "err", FALSE)
        atfork == child_stderr.t
        \* child: close parent's ends, redirect, close the originals, exec
        c1 == CloseAll3(atfork, child_stdin.wr, child_stdout.rd, child_stderr.rd)
        c2 == Dup2(Dup2(Dup2(c1, child_stdin.rd, STDIN_FILENO),
                        child_stdout.wr, STDOUT_FILENO),
                   child_stderr.wr, STDERR_FILENO)
        c3 == CloseAll3(c2, child_stdin.rd, child_stdout.wr, child_stderr.wr)
        \* parent: close child's ends
        q1 == parent_close_child_ends(atfork, child_stdin.rd, child_stdout.wr,
                                      child_stderr.wr)
        \* malloc failed: close the parent's ends too
        q2 == CloseAll3(q1, child_stdin.wr, child_stdout.rd, child_stderr.rd)
        handle == [st |-> "live", pid |-> pid, hProcess |-> -1,
                   input_fd |-> child_stdin.wr,
                   output_fd |-> child_stdout.rd,
                   error_fd |-> child_stderr.rd]
    IN  CASE fail = "pipe1" -> StartResult(NULL, t, FALSE, EmptyTable, NoHandle)
          [] fail = "pipe2" -> StartResult(NULL, child_stdin.t, FALSE, EmptyTable, NoHandle)
          [] fail = "pipe3" -> StartResult(NULL, child_stdout.t, FALSE, EmptyTable, NoHandle)
          [] fail = "fork" -> StartResult(NULL, atfork, FALSE, EmptyTable, NoHandle)
          [] fail = "malloc" -> StartResult(NULL, q2, TRUE, c3, NoHandle)
          [] OTHER -> StartResult(s, q1, TRUE, c3, handle)

WinFailPoints == {"pipe1", "pipe2", "pipe3", "setinfo", "cmdline", "create",
                  "malloc", "none"}

WinFeasible(t, fail) ==
    CASE fail = "pipe1" -> TRUE
      [] fail = "pipe2" -> NFree(t) >= 2
      [] fail = "pipe3" -> NFree(t) >= 4
      [] fail \in {"setinfo", "cmdline", "create"} -> NFree(t) >= 6
      [] OTHER -> NFree(t) >= 8 /\ FreePids # {}

\* the table CreateProcess gives the child: its three standard handles
\* (STARTF_USESTDHANDLES) and every other inheritable handle of the parent
ChildTableWin(t, in, out, err) ==
    [f \in Fds |->
        CASE f = STDIN_FILENO -> t[in]
          [] f = STDOUT_FILENO -> t[out]
          [] f = STDERR_FILENO -> t[err]
          [] OTHER -> IF t[f].inh /\ f \notin {in, out, err} THEN t[f] ELSE Free]

\* process_windows.c start_process
start_process_win(t, s, fail, pid) ==
    LET in == MakePipe(t, s, "in", TRUE)
        out == MakePipe(in.t, s, "out", TRUE)
        err == MakePipe(out.t, s, "err", TRUE)
        \* lines 196-197, 203-206: unwinding after a failed CreatePipe
        u2 == CloseFd(CloseFd(in.t, in.rd), in.wr)
        u3 == CloseFd(CloseFd(CloseFd(CloseFd(out.t, in.rd), in.wr), out.rd), out.wr)
        \* SetHandleInformation on the three parent ends
        i1 == ClearInherit(ClearInherit(ClearInherit(err.t, in.wr), out.rd), err.rd)
        \* lines 215-220, 236-241: all six handles closed
        u6 == CloseAll3(CloseAll3(i1, in.rd, in.wr, out.rd), out.wr, err.rd, err.wr)
        \* CreateProcess: the child's table, and piProcInfo's two handles
        ct == ChildTableWin(i1, in.rd, out.wr, err.wr)
        hProcess == LowestFree(i1)
        g1 == [i1 EXCEPT ![hProcess] = ProcH(s)]
        hThread == LowestFree(g1)
        g2 == [g1 EXCEPT ![hThread] = ThreadH(s)]
        \* lines 262-264: close handles we don't need in parent
        nc == CloseAll3(i1, in.rd, out.wr, err.wr)
        ok == CloseAll3(g2, in.rd, out.wr, err.wr)
        \* lines 267-269: CreateProcess failed
        uc == CloseAll3(nc, in.wr, out.rd, err.rd)
        \* line 274: close thread handle
        th == CloseFd(ok, hThread)
        \* lines 279-282: malloc failed
        um == CloseFd(CloseAll3(th, in.wr, out.rd, err.rd), hProcess)
        handle == [st |-> "live", pid |-> pid, hProcess |-> hProcess,
                   input_fd |-> in.wr, output_fd |-> out.rd, error_fd |-> err.rd]
    IN  CASE fail = "pipe1" -> StartResult(NULL, t, FALSE, EmptyTable, NoHandle)
          [] fail = "pipe2" -> StartResult(NULL, u2, FALSE, EmptyTable, NoHandle)
          [] fail = "pipe3" -> StartResult(NULL, u3, FALSE, EmptyTable, NoHandle)
          [] fail \in {"setinfo", "cmdline"} ->
                StartResult(NULL, u6, FALSE, EmptyTable, NoHandle)
          [] fail = "create" -> StartResult(NULL, uc, FALSE, EmptyTable, NoHandle)
          [] fail = "malloc" -> StartResult(NULL, um, TRUE, ct, NoHandle)
          [] OTHER -> StartResult(s, th, TRUE, ct, handle)

\* the effect on the state of a start_process call whose first failing call
\* was `fail` (kept in the frame's log) and whose result is r
StartEffect(s, r, pid, exec, fail) ==
    /\ fdt' = r.t
    /\ cfd' = [cfd EXCEPT ![s] = r.ct]
    /\ child' = [child EXCEPT ![s] =
                    IF r.forked
                    THEN [st |-> "running", pid |-> pid, exec |-> exec,
                          status |-> JUNK, sig |-> "-"]
                    ELSE NoChild]
    /\ hnd' = [hnd EXCEPT ![s] = r.h]
    /\ nspawn' = s
    /\ pc' = "ret"
    /\ ret' = [op |-> "start_process", h |-> s, val |-> r.res]
    /\ fr' = [Frame("start_process", s) EXCEPT !.log = <<fail>>]
    /\ UNCHANGED <<qvars, backend, pipebuf, buffer, source, wrote, got, everFalse>>

StartProcessPosix ==
    /\ backend = "posix" /\ pc = "idle" /\ nspawn < MaxSpawn
    /\ \E fail \in PosixFailPoints :
        /\ PosixFeasible(fdt, fail)
        /\ \E pid \in (IF fail \in {"malloc", "none"} THEN PidChoices ELSE {0}),
              exec \in (IF fail \in {"malloc", "none"} THEN ExecOutcomes ELSE {"-"}) :
              StartEffect(nspawn + 1,
                          start_process_posix(fdt, nspawn + 1, fail, pid), pid, exec,
                          fail)

StartProcessWin ==
    /\ backend = "windows" /\ pc = "idle" /\ nspawn < MaxSpawn
    /\ \E fail \in WinFailPoints :
        /\ WinFeasible(fdt, fail)
        /\ \E pid \in (IF fail \in {"malloc", "none"} THEN PidChoices ELSE {0}) :
              StartEffect(nspawn + 1,
                          start_process_win(fdt, nspawn + 1, fail, pid), pid,
                          IF fail \in {"malloc", "none"} THEN "ok" ELSE "-", fail)

\* the caller has looked at the result of the call; the buffer and *source
\* it passed are locals of the caller and end with it
CallerResume ==
    /\ pc = "ret"
    /\ pc' = "idle"
    /\ ret' = NoRet
    /\ fr' = NoFrame
    /\ buffer' = FreshBuffer
    /\ source' = JUNK
    /\ UNCHANGED <<qvars, backend, osvars, hnd, nspawn, wrote, got, everFalse>>

\* a call returns val
Return(op, h, val) ==
    /\ pc' = "ret"
    /\ ret' = [op |-> op, h |-> h, val |-> val]

Live(s) == hnd[s].st = "live"

\* ------------------------------------------------------------ the children
\* the program the child of spawn c executes ends (returns from main,
\* exit(), a fatal signal): its descriptors close
ChildExit(c) ==
    /\ child[c].st = "running" /\ child[c].exec = "ok"
    /\ child' = [child EXCEPT ![c].st = "zombie"]
    /\ cfd' = [cfd EXCEPT ![c] = EmptyTable]
    /\ UNCHANGED <<qvars, backend, fdt, pipebuf, hnd, nspawn, pc, fr, ret, buffer,
                   source, wrote, got, everFalse>>

\* the child of spawn c writes the next byte of its output to descriptor
\* f (1 or 2); the write waits while the pipe is full
ChildWrite(c, f) ==
    /\ child[c].st = "running" /\ child[c].exec = "ok"
    /\ cfd[c][f].k = "pipe" /\ cfd[c][f].e = "w"
    /\ LET s == cfd[c][f].s
           st == cfd[c][f].st
       IN  /\ wrote[s]["out"] + wrote[s]["err"] < MaxOut
           /\ HasReader(s, st)
           /\ Len(pipebuf[s][st]) < PipeCap
           /\ pipebuf' = [pipebuf EXCEPT ![s][st] = Append(@, wrote[s][st] + 1)]
           /\ wrote' = [wrote EXCEPT ![s][st] = @ + 1]
    /\ UNCHANGED <<qvars, backend, fdt, cfd, child, hnd, nspawn, pc, fr, ret, buffer,
                   source, got, everFalse>>

\* the child of spawn c reads what its standard input holds
ChildRead(c) ==
    /\ child[c].st = "running" /\ child[c].exec = "ok"
    /\ cfd[c][STDIN_FILENO].k = "pipe" /\ cfd[c][STDIN_FILENO].e = "r"
    /\ LET s == cfd[c][STDIN_FILENO].s
           st == cfd[c][STDIN_FILENO].st
       IN  /\ pipebuf[s][st] # <<>>
           /\ pipebuf' = [pipebuf EXCEPT ![s][st] = <<>>]
    /\ UNCHANGED <<qvars, backend, fdt, cfd, child, hnd, nspawn, pc, fr, ret, buffer,
                   source, wrote, got, everFalse>>

\* faulty variant: the child whose execvp failed exits with status 0
after_exec_failure_status0(ch) ==
    [ch EXCEPT !.st = "zombie", !.status = 0]

\* process.c line 49: exit(EXIT_FAILURE)
after_exec_failure(ch) ==
    [ch EXCEPT !.st = "zombie", !.status = EXIT_FAILURE]

\* process.c lines 45-49 in the child of spawn c: execvp returned, perror
\* writes its message to descriptor 2 (one byte stands for it), then the
\* child exits. A message written to a pipe that has no reader left raises
\* SIGPIPE, whose default action ends the child before line 49; a message
\* for a full pipe waits; on anything but a pipe's write end it has no
\* effect on the pipes
ExecFails(c) ==
    /\ child[c].st = "running" /\ child[c].exec = "failed"
    /\ LET e == cfd[c][STDERR_FILENO]
       IN  IF e.k = "pipe" /\ e.e = "w"
           THEN IF HasReader(e.s, e.st)
                THEN /\ Len(pipebuf[e.s][e.st]) < PipeCap
                     /\ wrote[e.s]["out"] + wrote[e.s]["err"] < MaxOut
                     /\ pipebuf' = [pipebuf EXCEPT ![e.s][e.st] =
                                        Append(@, wrote[e.s][e.st] + 1)]
                     /\ wrote' = [wrote EXCEPT ![e.s][e.st] = @ + 1]
                     /\ child' = [child EXCEPT ![c] = after_exec_failure(@)]
                ELSE /\ child' = [child EXCEPT ![c].st = "zombie",
                                                ![c].sig = "SIGPIPE"]
                     /\ UNCHANGED <<pipebuf, wrote>>
           ELSE /\ child' = [child EXCEPT ![c] = after_exec_failure(@)]
                /\ UNCHANGED <<pipebuf, wrote>>
    /\ cfd' = [cfd EXCEPT ![c] = EmptyTable]
    /\ UNCHANGED <<qvars, backend, fdt, hnd, nspawn, pc, fr, ret, buffer,
                   source, got, everFalse>>

\* ---------------------------------------------------------------- is_running
\* the children of the parent that waitpid(pid, ...) can refer to
WaitTargets(pid) ==
    {c \in Spawns : child[c].pid = pid /\ child[c].st \in {"running", "zombie"}}

\* waitpid(pid, &status, WNOHANG): 0 while the child runs, pid when it has
\* ended (the child is reaped), -1 (ECHILD) when the parent has no such child
waitpid_nohang(pid) ==
    IF WaitTargets(pid) = {} THEN -1
    ELSE IF \E c \in WaitTargets(pid) : child[c].st = "running" THEN 0
    ELSE pid

\* the process table after a waitpid that returned pid
Reap(pid) ==
    [c \in Spawns |->
        IF c \in WaitTargets(pid) /\ child[c].st = "zombie"
        THEN [child[c] EXCEPT !.st = "reaped"]
        ELSE child[c]]

\* faulty variant: a child that has exited is reported as running
is_running_posix_exited_runs(result) ==
    IF result = 0 THEN 1
    ELSE IF result = -1 THEN 0
    ELSE 1

\* process.c is_running, given waitpid's result
is_running_posix(result) ==
    IF result = 0 THEN 1
    ELSE IF result = -1 THEN 0
    ELSE 0

IsRunningPosix(s) ==
    /\ backend = "posix" /\ pc = "idle" /\ Live(s)
    /\ LET result == waitpid_nohang(hnd[s].pid)
           val == is_running_posix(result)
       IN  /\ child' = IF result > 0 THEN Reap(hnd[s].pid) ELSE child
           /\ everFalse' = [everFalse EXCEPT ![s] = @ \/ val = 0]
           /\ Return("is_running", s, val)
    /\ UNCHANGED <<qvars, backend, fdt, cfd, pipebuf, hnd, nspawn, fr, buffer,
                   source, wrote, got>>

\* GetExitCodeProcess(hProcess, &exitCode): STILL_ACTIVE while the process
\* the handle refers to runs
StillActive(h) ==
    /\ h \in Fds /\ fdt[h].k = "proc"
    /\ child[fdt[h].s].st = "running"

\* process_windows.c is_running
is_running_win(h) ==
    IF h = -1 THEN 0
    ELSE IF StillActive(h) THEN 1 ELSE 0

IsRunningWin(s) ==
    /\ backend = "windows" /\ pc = "idle" /\ Live(s)
    /\ LET val == is_running_win(hnd[s].hProcess)
       IN  /\ everFalse' = [everFalse EXCEPT ![s] = @ \/ val = 0]
           /\ Return("is_running", s, val)
    /\ UNCHANGED <<qvars, backend, osvars, hnd, nspawn, fr, buffer, source, wrote, got>>

\* -------------------------------------------------------------- close_process
\* faulty variant: error_fd is left open
close_endpoints_skips_error(t, h) ==
    LET t1 == IF h.input_fd >= 0 THEN CloseFd(t, h.input_fd) ELSE t
        t2 == IF h.output_fd >= 0 THEN CloseFd(t1, h.output_fd) ELSE t1
    IN  t2

\* lines 82-84 / 298-306: the three endpoints, each closed if it is valid
close_endpoints(t, h) ==
    LET t1 == IF h.input_fd >= 0 THEN CloseFd(t, h.input_fd) ELSE t
        t2 == IF h.output_fd >= 0 THEN CloseFd(t1, h.output_fd) ELSE t1
        t3 == IF h.error_fd >= 0 THEN CloseFd(t2, h.error_fd) ELSE t2
    IN  t3

close_endpoints_log(h) ==
    (IF h.input_fd >= 0 THEN <<"close input_fd">> ELSE <<>>)
    \o (IF h.output_fd >= 0 THEN <<"close output_fd">> ELSE <<>>)
    \o (IF h.error_fd >= 0 THEN <<"close error_fd">> ELSE <<>>)

\* close_process up to the point where it reclaims the process
CloseBegin(s) ==
    /\ pc = "idle" /\ Live(s)
    /\ fdt' = close_endpoints(fdt, hnd[s])
    /\ fr' = [Frame("close_process", s) EXCEPT !.log = close_endpoints_log(hnd[s])]
    /\ pc' = "reap"
    /\ UNCHANGED <<qvars, backend, cfd, pipebuf, child, hnd, nspawn, ret, buffer,
                   source, wrote, got, everFalse>>

\* process.c lines 87-90: waitpid(handle->pid, NULL, 0) returns once no child
\* with that pid is running; then the handle is freed
CloseReapPosix ==
    /\ backend = "posix" /\ pc = "reap"
    /\ waitpid_nohang(hnd[fr.h].pid) # 0
    /\ child' = Reap(hnd[fr.h].pid)
    /\ hnd' = [hnd EXCEPT ![fr.h].st = "freed"]
    /\ fr' = [fr EXCEPT !.log = @ \o <<"waitpid", "free">>]
    /\ Return("close_process", fr.h, 0)
    /\ UNCHANGED <<qvars, backend, fdt, cfd, pipebuf, nspawn, buffer, source, wrote,
                   got, everFalse>>

\* TerminateProcess(hProcess, 0): the process the handle refers to ends
Terminate(h) ==
    [c \in Spawns |->
        IF fdt[h].k = "proc" /\ fdt[h].s = c /\ child[c].st = "running"
        THEN [child[c] EXCEPT !.st = "zombie"]
        ELSE child[c]]

\* process_windows.c lines 309-319: terminate, wait up to 5 seconds with
\* either result, close the process handle, free the handle
CloseReapWin ==
    /\ backend = "windows" /\ pc = "reap"
    /\ LET h == hnd[fr.h].hProcess
       IN  IF h # -1
           THEN \E waitResult \in {"WAIT_OBJECT_0", "WAIT_TIMEOUT"} :
                /\ child' = [c \in Spawns |->
                                IF fdt[h].s = c
                                THEN [Terminate(h)[c] EXCEPT !.st = "reaped"]
                                ELSE child[c]]
                /\ cfd' = [c \in Spawns |->
                              IF fdt[h].s = c THEN EmptyTable ELSE cfd[c]]
                /\ fdt' = CloseFd(fdt, h)
                /\ fr' = [fr EXCEPT !.log = @ \o <<"TerminateProcess",
                              "WaitForSingleObject", waitResult,
                              "CloseHandle hProcess", "free">>]
           ELSE /\ fr' = [fr EXCEPT !.log = @ \o <<"free">>]
                /\ UNCHANGED <<fdt, cfd, child>>
    /\ hnd' = [hnd EXCEPT ![fr.h].st = "freed"]
    /\ Return("close_process", fr.h, 0)
    /\ UNCHANGED <<qvars, backend, pipebuf, nspawn, buffer, source, wrote, got, everFalse>>

\* ----------------------------------------------------------- write_to_process
\* the parent process ends (SIGPIPE with its default action, or a crash):
\* the system closes its descriptors
ParentDies(how) ==
    /\ pc' = how
    /\ fdt' = EmptyTable

\* the caller's data: length bytes 1, 2, ..., length
Data(length) == [i \in 1..length |-> i]

Space(s, st) == PipeCap - Len(pipebuf[s][st])

\* both backends, lines 110 / 337-339, and the loop's entry
WriteBegin(s, length) ==
    /\ pc = "idle" /\ Live(s)
    /\ fr' = [Frame("write_to_process", s) EXCEPT !.len = length]
    /\ IF hnd[s].input_fd < 0
       THEN Return("write_to_process", s, -1)
       ELSE /\ pc' = "write"
            /\ ret' = ret
    /\ UNCHANGED <<qvars, backend, osvars, hnd, nspawn, buffer, source, wrote, got,
                   everFalse>>

\* faulty variant: a single write(), whatever it accepted
posix_write_once(total_written, length) == total_written = 0 /\ length > 0

\* process.c line 113: the loop goes on while total_written < length
posix_write_more(total_written, length) == total_written < length

\* process.c lines 113-125, one turn of the loop: a write() that accepts k
\* bytes (it waits while the pipe is full), and the return when the loop ends
WriteStepPosix ==
    /\ backend = "posix" /\ pc = "write"
    /\ LET o == fdt[hnd[fr.h].input_fd]
       IN  IF ~posix_write_more(fr.total, fr.len)
           THEN \* fsync, return total_written
                /\ Return("write_to_process", fr.h, fr.total)
                /\ UNCHANGED <<fr, osvars>>
           ELSE IF ~HasReader(o.s, o.st)
           THEN \* EPIPE: SIGPIPE ends the parent, or (signal ignored) -1
                \/ /\ ParentDies("killed")
                   /\ UNCHANGED <<fr, ret, cfd, pipebuf, child>>
                \/ /\ Return("write_to_process", fr.h, -1)
                   /\ fr' = [fr EXCEPT !.st = "pipe closed"]
                   /\ UNCHANGED osvars
           ELSE \E written \in 1..Min(Space(o.s, o.st), fr.len - fr.total) :
                /\ pipebuf' = [pipebuf EXCEPT ![o.s][o.st] =
                      @ \o SubSeq(Data(fr.len), fr.total + 1, fr.total + written)]
                /\ fr' = [fr EXCEPT !.total = @ + written,
                                    !.acc = @ \o SubSeq(Data(fr.len), fr.total + 1,
                                                        fr.total + written)]
                /\ UNCHANGED <<pc, ret, fdt, cfd, child>>
    /\ UNCHANGED <<qvars, backend, hnd, nspawn, buffer, source, wrote, got, everFalse>>

\* process_windows.c lines 342-356: WriteFile on the synchronous pipe handle
\* returns when all length bytes are in the pipe (the system moves them as
\* the pipe has room), or fails because the pipe has no reader.
\* FlushFileBuffers changes nothing the model holds.
WriteFileWin ==
    /\ backend = "windows" /\ pc = "write"
    /\ LET o == fdt[hnd[fr.h].input_fd]
       IN  IF ~HasReader(o.s, o.st)
           THEN \* ERROR_NO_DATA or ERROR_BROKEN_PIPE
                /\ Return("write_to_process", fr.h, 0)
                /\ fr' = [fr EXCEPT !.st = "pipe closed"]
                /\ UNCHANGED osvars
           ELSE IF fr.total < fr.len
           THEN LET k == Min(Space(o.s, o.st), fr.len - fr.total)
                IN  /\ k > 0
                    /\ pipebuf' = [pipebuf EXCEPT ![o.s][o.st] =
                          @ \o SubSeq(Data(fr.len), fr.total + 1, fr.total + k)]
                    /\ fr' = [fr EXCEPT !.total = @ + k,
                                        !.acc = @ \o SubSeq(Data(fr.len),
                                                       fr.total + 1, fr.total + k)]
                    /\ UNCHANGED <<pc, ret, fdt, cfd, child>>
           ELSE \* success: return (int)bytesWritten, which is length
                /\ Return("write_to_process", fr.h, fr.total)
                /\ UNCHANGED <<fr, osvars>>
    /\ UNCHANGED <<qvars, backend, hnd, nspawn, buffer, source, wrote, got, everFalse>>

\* WriteFile fails with another error
WriteFileErrorWin ==
    /\ backend = "windows" /\ pc = "write"
    /\ Return("write_to_process", fr.h, -1)
    /\ UNCHANGED <<qvars, backend, osvars, hnd, nspawn, fr, buffer, source, wrote,
                   got, everFalse>>

\* ------------------------------------------------------------------ reads
ReadOps == {"read_from_output", "read_from_error", "read_available"}
OpOf(st) == IF st = "out" THEN "read_from_output" ELSE "read_from_error"
FieldOf(h, st) == IF st = "out" THEN hnd[h].output_fd ELSE hnd[h].error_fd

\* the stream a read's result is attributed to: the operation's for
\* read_from_output/read_from_error, the one *source names for read_available
Attributed(op, st, src) ==
    IF op = "read_available" THEN (IF src = 1 THEN "out" ELSE "err") ELSE st

\* buffer after n bytes of q were stored at its start
Store(b, q, n) == [i \in 0..(MaxBuf - 1) |-> IF i < n THEN q[i + 1] ELSE b[i]]

\* lines 144-146 / 162-163 / 408-409: if (bytes_read > 0) buffer[bytes_read] = '\0'
Terminated(b, bytes_read) ==
    IF bytes_read > 0 THEN [b EXCEPT ![bytes_read] = 0] ELSE b

\* poll()'s revents for descriptor fd with events = POLLIN
poll_revents(fd) ==
    LET o == fdt[fd]
    IN  (IF pipebuf[o.s][o.st] # <<>> THEN {"POLLIN"} ELSE {})
        \cup (IF ~HasWriter(o.s, o.st) THEN {"POLLHUP"} ELSE {})

\* read(fd, buffer, count) on a non-blocking pipe holding q: the number of
\* bytes taken, 0 at end of stream, -1 (EAGAIN) when it would block
posix_read(q, count, writer) ==
    IF q # <<>> THEN Min(Len(q), count)
    ELSE IF writer THEN -1 ELSE 0

\* a read call starts
ReadFrame(op, s, st, S, timeout) ==
    [Frame(op, s) EXCEPT !.S = S, !.timeout = timeout, !.st = st]

\* the frame once the call has returned: the wait is over
Seen(f) == [f EXCEPT !.timeout = 0]

\* the frame of a read call that returned after the system answered
\* answer, a pair <<call, answer>>, kept in the frame's log
Answered(f, answer) == Seen([f EXCEPT !.st = "-", !.log = answer])

\* the frame of a read call that has returned (pc' = "ret") or goes on
ReadFrameAt(p, op, s, st, S, timeout, answer) ==
    IF p = "ret" THEN Answered(ReadFrame(op, s, "-", S, timeout), answer)
    ELSE ReadFrame(op, s, st, S, timeout)

\* errno values of a failing poll() and of a failing read()
PollErrnos == {"EINTR", "ENOMEM"}
ReadErrnos == {"EINTR", "EIO"}

\* process.c read_from_output / read_from_error up to the end of poll()
ReadPollPosix(s, st, S, timeout) ==
    /\ backend = "posix" /\ pc = "idle" /\ Live(s)
    /\ IF FieldOf(s, st) < 0
       THEN Return(OpOf(st), s, -1)
       ELSE LET revents == poll_revents(FieldOf(s, st))
            IN  \/ \* poll_result == 0
                   /\ revents = {} /\ timeout >= 0
                   /\ Return(OpOf(st), s, 0)
                \/ /\ revents # {}
                   /\ IF "POLLIN" \in revents
                      THEN pc' = "read" /\ ret' = ret
                      ELSE IF "POLLHUP" \in revents
                      THEN Return(OpOf(st), s, 0)
                      ELSE Return(OpOf(st), s, -1)
    /\ fr' = ReadFrameAt(pc', OpOf(st), s, st, S, timeout,
                          IF FieldOf(s, st) < 0 THEN <<"handle", "invalid">>
                          ELSE IF poll_revents(FieldOf(s, st)) = {}
                          THEN <<"poll", "timeout">>
                          ELSE <<"poll", "POLLHUP">>)
    /\ UNCHANGED <<qvars, backend, osvars, hnd, nspawn, buffer, source, wrote, got,
                   everFalse>>

\* poll() itself fails (a signal arrives: EINTR; ENOMEM): poll_result == -1
ReadPollFailsPosix(s, st, S, timeout, errno) ==
    /\ backend = "posix" /\ pc = "idle" /\ Live(s)
    /\ FieldOf(s, st) >= 0
    /\ fr' = Answered(ReadFrame(OpOf(st), s, "-", S, timeout), <<"poll", errno>>)
    /\ Return(OpOf(st), s, -1)
    /\ UNCHANGED <<qvars, backend, osvars, hnd, nspawn, buffer, source, wrote, got,
                   everFalse>>

\* faulty variant: stdout is reported whichever descriptor is read
source_always_stdout(i, output_fd) == 1

\* process.c lines 214-220: *source for the i-th polled descriptor (the
\* model counts them from 1)
source_of_index(i, output_fd) == IF i = 1 /\ output_fd >= 0 THEN 1 ELSE 2

\* process.c read_available up to the choice of fd_to_read (lines 183-220)
ReadAvailPollPosix(s, S, timeout) ==
    /\ backend = "posix" /\ pc = "idle" /\ Live(s)
    /\ LET pfds == (IF hnd[s].output_fd >= 0 THEN <<"out">> ELSE <<>>)
                   \o (IF hnd[s].error_fd >= 0 THEN <<"err">> ELSE <<>>)
           nfds == Len(pfds)
           rev(i) == poll_revents(FieldOf(s, pfds[i]))
           ready == {i \in 1..nfds : "POLLIN" \in rev(i)}
           first == CHOOSE i \in ready : \A j \in ready : i <= j
           \* line 214: i == 0 && handle->output_fd >= 0
           pick == IF first = 1 /\ hnd[s].output_fd >= 0 THEN "out" ELSE "err"
           src == source_of_index(first, hnd[s].output_fd)
       IN  IF nfds = 0
           THEN /\ Return("read_available", s, -1)
                /\ fr' = Answered(ReadFrame("read_available", s, "-", S, timeout),
                                  <<"handle", "invalid">>)
                /\ source' = source
           ELSE \/ /\ \A i \in 1..nfds : rev(i) = {}
                   /\ timeout >= 0
                   /\ Return("read_available", s, 0)
                   /\ fr' = Answered(ReadFrame("read_available", s, "-", S, timeout),
                                     <<"poll", "timeout">>)
                   /\ source' = source
                \/ /\ \E i \in 1..nfds : rev(i) # {}
                   /\ IF ready # {}
                      THEN /\ pc' = "read" /\ ret' = ret
                           /\ fr' = ReadFrame("read_available", s, pick, S, timeout)
                           /\ source' = src
                      ELSE /\ Return("read_available", s, 0)
                           /\ fr' = Answered(ReadFrame("read_available", s, "-", S,
                                                       timeout), <<"poll", "POLLHUP">>)
                           /\ source' = source
    /\ UNCHANGED <<qvars, backend, osvars, hnd, nspawn, buffer, wrote, got, everFalse>>

ReadAvailPollFailsPosix(s, S, timeout, errno) ==
    /\ backend = "posix" /\ pc = "idle" /\ Live(s)
    /\ fr' = Answered(ReadFrame("read_available", s, "-", S, timeout),
                      <<"poll", errno>>)
    /\ Return("read_available", s, -1)
    /\ UNCHANGED <<qvars, backend, osvars, hnd, nspawn, buffer, source, wrote, got,
                   everFalse>>

\* the state after a read stored the first n bytes of pipe <<s, st>> and
\* returns bytes_read for the call in fr
ReadEffect(s, st, n, bytes_read, answer) ==
    /\ pipebuf' = [pipebuf EXCEPT ![s][st] = Drop(@, n)]
    /\ buffer' = Terminated(Store(buffer, pipebuf[s][st], n), bytes_read)
    /\ fr' = Answered([fr EXCEPT !.stored = n], answer)
    /\ got' = IF bytes_read > 0
              THEN [got EXCEPT ![fr.h][Attributed(fr.op, fr.st, source)] =
                       @ \o [i \in 1..bytes_read |-> buffer'[i - 1]]]
              ELSE got
    /\ Return(fr.op, fr.h, bytes_read)

\* process.c lines 143-147 / 170-174 / 222-226: read() and the return
ReadStepPosix ==
    /\ backend = "posix" /\ pc = "read"
    /\ LET o == fdt[FieldOf(fr.h, fr.st)]
           bytes_read == posix_read(pipebuf[o.s][o.st], fr.S - 1,
                                    HasWriter(o.s, o.st))
       IN  ReadEffect(o.s, o.st, IF bytes_read > 0 THEN bytes_read ELSE 0,
                      bytes_read,
                      <<"read", IF pipebuf[o.s][o.st] # <<>> THEN "data"
                                ELSE IF HasWriter(o.s, o.st) THEN "EAGAIN"
                                ELSE "eof">>)
    /\ UNCHANGED <<qvars, backend, fdt, cfd, child, hnd, nspawn, source, wrote, everFalse>>

\* read() fails: it returns -1, which lines 147 / 174 / 226 return
ReadFailsPosix(errno) ==
    /\ backend = "posix" /\ pc = "read"
    /\ fr' = Answered(fr, <<"read", errno>>)
    /\ Return(fr.op, fr.h, -1)
    /\ UNCHANGED <<qvars, backend, osvars, hnd, nspawn, buffer, source, wrote, got,
                   everFalse>>

\* process_windows.c read_from_output / read_from_error and read_from_handle
\* up to CreateEvent (lines 360-363, 121-129)
ReadBeginWin(s, st, S, timeout) ==
    /\ backend = "windows" /\ pc = "idle" /\ Live(s)
    /\ IF FieldOf(s, st) = -1
       THEN Return(OpOf(st), s, -1)
       ELSE \/ pc' = "readfile" /\ ret' = ret
            \/ Return(OpOf(st), s, -1)       \* CreateEvent failed
    /\ fr' = ReadFrameAt(pc', OpOf(st), s, st, S, timeout,
                          IF FieldOf(s, st) = -1 THEN <<"handle", "invalid">>
                          ELSE <<"CreateEvent", "failed">>)
    /\ UNCHANGED <<qvars, backend, osvars, hnd, nspawn, buffer, source, wrote, got,
                   everFalse>>

\* What ReadFile(h, buffer, count, &bytesRead, ...) on a pipe handle made by
\* CreatePipe can answer.  The handle is synchronous, with or without an
\* OVERLAPPED structure: the call returns when the pipe has data or has lost
\* its writer, and never answers ERROR_IO_PENDING.
OsReadFile(q, count, writer) ==
    (IF q # <<>>
     THEN {[success |-> TRUE, err |-> "-", n |-> Min(Len(q), count)]}
     ELSE IF ~writer
     THEN {[success |-> FALSE, err |-> "ERROR_BROKEN_PIPE", n |-> 0]}
     ELSE {})
    \cup {[success |-> FALSE, err |-> "ERROR_OTHER", n |-> 0]}

ReadFileAnswer(r) == <<"ReadFile", IF r.success THEN "data" ELSE r.err>>

\* process_windows.c lines 134-156: bytesRead after ReadFile answered r;
\* waitResult and getResult are the answers of WaitForSingleObject and
\* GetOverlappedResult.  -1 stands for the DWORD 0xFFFFFFFF.
rfh_bytesRead(r, waitResult, getResult) ==
    IF r.success THEN r.n
    ELSE IF r.err = "ERROR_IO_PENDING"
    THEN (IF waitResult = "WAIT_OBJECT_0"
          THEN (IF getResult THEN r.n ELSE 0)
          ELSE 0)
    ELSE IF r.err = "ERROR_BROKEN_PIPE" THEN 0
    ELSE -1

\* bytesRead > 0 on the unsigned DWORD
DwordPositive(bytesRead) == bytesRead # 0

\* process_windows.c lines 132-169
ReadFileWin ==
    /\ backend = "windows" /\ pc = "readfile"
    /\ LET o == fdt[FieldOf(fr.h, fr.st)]
       IN  \E r \in OsReadFile(pipebuf[o.s][o.st], fr.S - 1, HasWriter(o.s, o.st)) :
           LET bytesRead == rfh_bytesRead(r, "WAIT_OBJECT_0", TRUE)
           IN  IF DwordPositive(bytesRead) /\ bytesRead \notin 0..(MaxBuf - 1)
               THEN \* buffer[0xFFFFFFFF] = '\0': a store far outside the
                    \* buffer; the process crashes, or goes on and returns
                    \* (int)bytesRead
                    \/ /\ ParentDies("crashed")
                       /\ UNCHANGED <<cfd, pipebuf, child, fr, ret, buffer, got>>
                    \/ /\ Return(fr.op, fr.h, -1)
                       /\ fr' = Answered(fr, ReadFileAnswer(r))
                       /\ UNCHANGED <<osvars, buffer, got>>
               ELSE /\ ReadEffect(o.s, o.st, r.n, bytesRead, ReadFileAnswer(r))
                    /\ UNCHANGED <<fdt, cfd, child>>
    /\ UNCHANGED <<qvars, backend, hnd, nspawn, source, wrote, everFalse>>

\* process_windows.c read_available up to the end of WaitForMultipleObjects
\* (lines 374-402, 415-418).  The handles waited on are pipe handles, which
\* are not among the objects the wait functions define a signaled state
\* for: any answer is possible, whatever the pipes hold.
ReadAvailWaitWin(s, S, timeout) ==
    /\ backend = "windows" /\ pc = "idle" /\ Live(s)
    /\ LET handles == (IF hnd[s].output_fd # -1 THEN <<"out">> ELSE <<>>)
                      \o (IF hnd[s].error_fd # -1 THEN <<"err">> ELSE <<>>)
           handleCount == Len(handles)
       IN  IF handleCount = 0
           THEN /\ Return("read_available", s, -1)
                /\ fr' = Answered(ReadFrame("read_available", s, "-", S, timeout),
                                  <<"handle", "invalid">>)
                /\ source' = source
           ELSE \/ \* WAIT_TIMEOUT
                   /\ timeout >= 0
                   /\ Return("read_available", s, 0)
                   /\ fr' = Answered(ReadFrame("read_available", s, "-", S, timeout),
                                     <<"WaitForMultipleObjects", "WAIT_TIMEOUT">>)
                   /\ source' = source
                \/ \* WAIT_OBJECT_0 + index
                   \E index \in 1..handleCount :
                   /\ pc' = "ra_readfile" /\ ret' = ret
                   /\ fr' = ReadFrame("read_available", s, handles[index], S, timeout)
                   /\ source' = IF FieldOf(s, handles[index]) = hnd[s].output_fd
                                THEN 1 ELSE 2
                \/ \* WAIT_FAILED
                   /\ Return("read_available", s, -1)
                   /\ fr' = Answered(ReadFrame("read_available", s, "-", S, timeout),
                                     <<"WaitForMultipleObjects", "WAIT_FAILED">>)
                   /\ source' = source
    /\ UNCHANGED <<qvars, backend, osvars, hnd, nspawn, buffer, wrote, got, everFalse>>

\* process_windows.c lines 405-420: ReadFile without OVERLAPPED, and the
\* return: bytesRead if the read succeeded with data, 0 in every other case
ra_result(r) == IF r.success /\ r.n > 0 THEN r.n ELSE 0

ReadAvailFileWin ==
    /\ backend = "windows" /\ pc = "ra_readfile"
    /\ LET o == fdt[FieldOf(fr.h, fr.st)]
       IN  \E r \in OsReadFile(pipebuf[o.s][o.st], fr.S - 1, HasWriter(o.s, o.st)) :
              ReadEffect(o.s, o.st, r.n, ra_result(r), ReadFileAnswer(r))
    /\ UNCHANGED <<qvars, backend, fdt, cfd, child, hnd, nspawn, source, wrote, everFalse>>

\* ------------------------------------------------- Windows command line
\* A string is a sequence of characters; the characters that matter to the
\* code, and one ordinary character.
SP == "space"
TAB == "tab"
NL == "newline"
VT == "vtab"
QUOTE == "quote"
BSLASH == "backslash"
Alphabet == {SP, TAB, NL, VT, QUOTE, BSLASH, "a"}

\* the strings of at most n characters
Strings(n) == UNION {[1..k -> Alphabet] : k \in 0..n}

\* the args arrays start_process is tried with: no argument or one
ArgLists == {<<>>} \cup {<<a>> : a \in Strings(MaxArgLen)}

\* c repeated n times
Rep(c, n) == [k \in 1..n |-> c]

\* strchr(str, c) != NULL
Contains(str, c) == \E k \in 1..Len(str) : str[k] = c

\* faulty variant: the vertical tab is not looked for
needs_quoting_no_vt(str) ==
    Contains(str, SP) \/ Contains(str, TAB) \/ Contains(str, NL) \/ str = <<>>

\* process_windows.c lines 14-21
needs_quoting(str) ==
    Contains(str, SP) \/ Contains(str, TAB) \/ Contains(str, NL)
    \/ Contains(str, VT) \/ str = <<>>

\* lines 33-36: the number of consecutive backslashes of src from index i on
RECURSIVE CountBackslashes(_, _)
CountBackslashes(src, i) ==
    IF i <= Len(src) /\ src[i] = BSLASH THEN 1 + CountBackslashes(src, i + 1)
    ELSE 0

\* lines 29-60: the while loop of quote_argument from index i of src (the
\* model's indexes start at 1), dest being what is written after the
\* opening quote so far
RECURSIVE quote_loop(_, _, _)
quote_loop(src, i, dest) ==
    IF i > Len(src) THEN dest
    ELSE LET backslashes == CountBackslashes(src, i)
             i2 == i + backslashes
         IN  IF i2 > Len(src)
             THEN dest \o Rep(BSLASH, backslashes * 2)
             ELSE IF src[i2] = QUOTE
             THEN quote_loop(src, i2 + 1,
                             dest \o Rep(BSLASH, backslashes * 2) \o <<BSLASH, QUOTE>>)
             ELSE quote_loop(src, i2 + 1,
                             dest \o Rep(BSLASH, backslashes) \o <<src[i2]>>)

\* process_windows.c lines 24-64
quote_argument(src) == <<QUOTE>> \o quote_loop(src, 1, <<>>) \o <<QUOTE>>

\* lines 91-97 / 102-108: one token of the command line
emit_token(str) == IF needs_quoting(str) THEN quote_argument(str) ELSE str

\* lines 99-109: the loop over args from index i on
RECURSIVE add_arguments(_, _, _)
add_arguments(line, a, i) ==
    IF i > Len(a) THEN line
    ELSE add_arguments(line \o <<SP>> \o emit_token(a[i]), a, i + 1)

\* process_windows.c lines 67-117, the string it returns
create_command_line_ex(c, a) == add_arguments(emit_token(c), a, 1)

\* How the child's runtime splits the command line CreateProcess was given
\* into arguments: space and tab outside quotes separate arguments; 2n
\* backslashes and a quote give n backslashes and open or close a quoted
\* part; 2n+1 backslashes and a quote give n backslashes and a literal
\* quote; any other backslash is literal.
\* cur is the argument being read, intok whether one is being read, inq
\* whether a quoted part is open, out the arguments read so far.
RECURSIVE split_arguments(_, _, _, _, _, _)
split_arguments(line, i, cur, intok, inq, out) ==
    IF i > Len(line) THEN (IF intok THEN Append(out, cur) ELSE out)
    ELSE LET n == CountBackslashes(line, i)
             j == i + n
         IN  IF j <= Len(line) /\ line[j] = QUOTE
             THEN IF n % 2 = 0
                  THEN split_arguments(line, j + 1, cur \o Rep(BSLASH, n \div 2),
                                       TRUE, ~inq, out)
                  ELSE split_arguments(line, j + 1,
                                       cur \o Rep(BSLASH, n \div 2) \o <<QUOTE>>,
                                       TRUE, inq, out)
             ELSE IF n > 0
             THEN split_arguments(line, j, cur \o Rep(BSLASH, n), TRUE, inq, out)
             ELSE IF line[i] \in {SP, TAB} /\ ~inq
             THEN split_arguments(line, i + 1, <<>>, FALSE, FALSE,
                                  IF intok THEN Append(out, cur) ELSE out)
             ELSE split_arguments(line, i + 1, Append(cur, line[i]), TRUE, inq, out)

CommandLineToArgv(line) == split_arguments(line, 1, <<>>, FALSE, FALSE, <<>>)

\* start_process is called with cmd and args: lines 234-235
CreateCommandLine ==
    /\ qpc = "input"
    /\ cmdline' = create_command_line_ex(cmd, args)
    /\ qpc' = "built"
    /\ UNCHANGED <<backend, osvars, hnd, nspawn, pc, fr, ret, buffer, source,
                   wrote, got, everFalse, cmd, args, argv, sz>>

\* lines 246-257: CreateProcess passes cmdline to the child, whose runtime
\* splits it
ChildSplitsCommandLine ==
    /\ qpc = "built"
    /\ argv' = CommandLineToArgv(cmdline)
    /\ qpc' = "split"
    /\ UNCHANGED <<backend, osvars, hnd, nspawn, pc, fr, ret, buffer, source,
                   wrote, got, everFalse, cmd, args, cmdline, sz>>

\* ------------------------------------------------ the command line's buffer
\* int arithmetic (length is an int, lines 69-86): the sum modulo 2^32, which
\* is what converting the size_t sum back to int gives
Add32(a, b) ==
    IF b > 0 /\ a > INT_MAX - b
    THEN (a - INT_MAX - 1) + (b - INT_MAX - 1)
    ELSE IF b < 0 /\ a < (-INT_MAX - 1) - b
    THEN (a + INT_MAX + 1) + (b + INT_MAX + 1)
    ELSE a + b

\* a count of bytes, counted up to INT_MAX
SatAdd(a, b) == IF a > INT_MAX - b THEN INT_MAX ELSE a + b

\* A long token is a string of the model followed by pad more characters
\* 'a'.  The paddings tried: none, one that makes the first pass exceed
\* INT_MAX, one that makes it exceed 2^32
LongPad == INT_MAX - 7
PadLens == {0, INT_MAX \div 2, LongPad}

\* the padding of token i (0: cmd, i: args[i]) under z = [tok, pad, ...]
PadOf(z, i) == IF z.tok = i THEN z.pad ELSE 0

\* the token up to and including its first padding character
Sample(str, pad) == IF pad > 0 THEN Append(str, "a") ELSE str

\* strlen of the token
token_strlen(str, pad) == Len(str) + pad

\* lines 72-76 / 81-85: what the first pass adds to length for the token
first_pass_token(str, pad) ==
    IF needs_quoting(Sample(str, pad))
    THEN Add32(Add32(token_strlen(str, pad), token_strlen(str, pad)), 10)
    ELSE Add32(token_strlen(str, pad), 1)

\* lines 79-86: the first pass over args from index i on
RECURSIVE first_pass_args(_, _, _, _)
first_pass_args(length, a, z, i) ==
    IF i > Len(a) THEN length
    ELSE first_pass_args(
             Add32(Add32(length, 1), first_pass_token(a[i], PadOf(z, i))),
             a, z, i + 1)

\* lines 69-86: length
first_pass_length(c, a, z) ==
    first_pass_args(Add32(0, first_pass_token(c, PadOf(z, 0))), a, z, 1)

\* lines 95-101 / 106-112: the bytes the token takes in the buffer, its
\* terminator not counted; each padding character is copied as it is
\* (strcpy, or lines 52-58 with no backslash before it)
token_bytes(str, pad) ==
    SatAdd(Len(emit_token(Sample(str, pad))), IF pad > 0 THEN pad - 1 ELSE 0)

\* lines 104-113: pos after the loop over args from index i on
RECURSIVE second_pass_args(_, _, _, _)
second_pass_args(pos, a, z, i) ==
    IF i > Len(a) THEN pos
    ELSE second_pass_args(
             SatAdd(SatAdd(pos, 1), token_bytes(a[i], PadOf(z, i))),
             a, z, i + 1)

\* lines 92-115: the bytes stored from cmdline[0] on, the terminator at
\* cmdline[pos] being the last
bytes_written(c, a, z) ==
    SatAdd(second_pass_args(token_bytes(c, PadOf(z, 0)), a, z, 1), 1)

\* line 89: malloc(length + 1) given whether the heap has room; a negative
\* int becomes a size no heap has
malloc_size(length, room) ==
    IF Add32(length, 1) < 0 \/ ~room THEN -1 ELSE Add32(length, 1)

\* create_command_line_ex, lines 69-116, as to its buffer
CommandLineBuffer ==
    /\ qpc = "input"
    /\ \E room \in BOOLEAN :
          LET length == first_pass_length(cmd, args, sz)
              alloc == malloc_size(length, room)
          IN  /\ sz' = [sz EXCEPT !.length = length, !.alloc = alloc,
                                  !.written = IF alloc = -1 THEN 0
                                              ELSE bytes_written(cmd, args, sz)]
              /\ qpc' = IF alloc = -1 THEN "null" ELSE "filled"
    /\ UNCHANGED <<backend, osvars, hnd, nspawn, pc, fr, ret, buffer, source,
                   wrote, got, everFalse, cmd, args, cmdline, argv>>

\* ------------------------------------------------------------ specifications
\* the handles' lifecycles: spawning, probing and closing up to MaxSpawn
\* children that run and end
NextLife ==
    \/ StartProcessPosix
    \/ StartProcessWin
    \/ CallerResume
    \/ \E s \in Spawns : ChildExit(s)
    \/ \E s \in Spawns : ExecFails(s)
    \/ \E s \in Spawns : IsRunningPosix(s)
    \/ \E s \in Spawns : IsRunningWin(s)
    \/ \E s \in Spawns : CloseBegin(s)
    \/ CloseReapPosix
    \/ CloseReapWin

SpecLife == Init /\ [][NextLife]_vars

\* the POSIX lifecycles of a parent that was itself started with any of its
\* descriptors 0, 1, 2 open or closed
ParentTables ==
    {[f \in Fds |-> IF f \in open THEN Tty ELSE Free] :
        open \in SUBSET {STDIN_FILENO, STDOUT_FILENO, STDERR_FILENO}}

InitFds ==
    /\ QuoteIdle
    /\ backend = "posix"
    /\ fdt \in ParentTables
    /\ cfd = [s \in Spawns |-> EmptyTable]
    /\ pipebuf = [s \in Spawns |-> [st \in Streams |-> <<>>]]
    /\ child = [s \in Spawns |-> NoChild]
    /\ hnd = [s \in Spawns |-> NoHandle]
    /\ nspawn = 0
    /\ pc = "idle"
    /\ fr = NoFrame
    /\ ret = NoRet
    /\ buffer = FreshBuffer
    /\ source = JUNK
    /\ wrote = [s \in Spawns |-> [st \in Streams |-> 0]]
    /\ got = [s \in Spawns |-> [st \in Streams |-> <<>>]]
    /\ everFalse = [s \in Spawns |-> FALSE]

NextFds ==
    \/ StartProcessPosix
    \/ CallerResume
    \/ \E s \in Spawns : ChildExit(s)
    \/ \E s \in Spawns : ExecFails(s)
    \/ \E s \in Spawns : IsRunningPosix(s)
    \/ \E s \in Spawns : CloseBegin(s)
    \/ CloseReapPosix

SpecFds == InitFds /\ [][NextFds]_vars

\* every operation, on the handle of the last of the MaxSpawn calls of
\* start_process: the calls before it failed at their first pipe
InitOne ==
    /\ QuoteIdle
    /\ backend \in Backends
    /\ fdt = StdTable
    /\ cfd = [s \in Spawns |-> EmptyTable]
    /\ pipebuf = [s \in Spawns |-> [st \in Streams |-> <<>>]]
    /\ child = [s \in Spawns |-> NoChild]
    /\ hnd = [s \in Spawns |-> NoHandle]
    /\ nspawn = MaxSpawn - 1
    /\ pc = "idle"
    /\ fr = NoFrame
    /\ ret = NoRet
    /\ buffer = FreshBuffer
    /\ source = JUNK
    /\ wrote = [s \in Spawns |-> [st \in Streams |-> 0]]
    /\ got = [s \in Spawns |-> [st \in Streams |-> <<>>]]
    /\ everFalse = [s \in Spawns |-> FALSE]

Next ==
    \/ StartProcessPosix
    \/ StartProcessWin
    \/ CallerResume
    \/ \E s \in Spawns : ChildExit(s)
    \/ \E s \in Spawns : ExecFails(s)
    \/ \E s \in Spawns, f \in {STDOUT_FILENO, STDERR_FILENO} : ChildWrite(s, f)
    \/ \E s \in Spawns : ChildRead(s)
    \/ \E s \in Spawns : IsRunningPosix(s)
    \/ \E s \in Spawns : IsRunningWin(s)
    \/ \E s \in Spawns : CloseBegin(s)
    \/ CloseReapPosix
    \/ CloseReapWin
    \/ \E s \in Spawns, length \in 0..MaxWrite : WriteBegin(s, length)
    \/ WriteStepPosix
    \/ WriteFileWin
    \/ WriteFileErrorWin
    \/ \E s \in Spawns, st \in {"out", "err"}, S \in BufSizes, t \in Timeouts :
          ReadPollPosix(s, st, S, t)
    \/ \E s \in Spawns, st \in {"out", "err"}, S \in BufSizes, t \in Timeouts,
          e \in PollErrnos : ReadPollFailsPosix(s, st, S, t, e)
    \/ \E s \in Spawns, S \in BufSizes, t \in Timeouts : ReadAvailPollPosix(s, S, t)
    \/ \E s \in Spawns, S \in BufSizes, t \in Timeouts, e \in PollErrnos :
          ReadAvailPollFailsPosix(s, S, t, e)
    \/ ReadStepPosix
    \/ \E e \in ReadErrnos : ReadFailsPosix(e)
    \/ \E s \in Spawns, st \in {"out", "err"}, S \in BufSizes, t \in Timeouts :
          ReadBeginWin(s, st, S, t)
    \/ ReadFileWin
    \/ \E s \in Spawns, S \in BufSizes, t \in Timeouts : ReadAvailWaitWin(s, S, t)
    \/ ReadAvailFileWin

Spec == InitOne /\ [][Next]_vars

\* the Windows command line of every cmd and args within the bounds
InitQuote ==
    /\ backend = "windows"
    /\ fdt = StdTable
    /\ cfd = [s \in Spawns |-> EmptyTable]
    /\ pipebuf = [s \in Spawns |-> [st \in Streams |-> <<>>]]
    /\ child = [s \in Spawns |-> NoChild]
    /\ hnd = [s \in Spawns |-> NoHandle]
    /\ nspawn = 0
    /\ pc = "idle"
    /\ fr = NoFrame
    /\ ret = NoRet
    /\ buffer = FreshBuffer
    /\ source = JUNK
    /\ wrote = [s \in Spawns |-> [st \in Streams |-> 0]]
    /\ got = [s \in Spawns |-> [st \in Streams |-> <<>>]]
    /\ everFalse = [s \in Spawns |-> FALSE]
    /\ cmd \in Strings(MaxCmdLen)
    /\ args \in ArgLists
    /\ cmdline = <<>>
    /\ argv = <<>>
    /\ qpc = "input"
    /\ sz = NoSize

NextQuote ==
    \/ CreateCommandLine
    \/ ChildSplitsCommandLine

SpecQuote == InitQuote /\ [][NextQuote]_vars

\* the buffer of the command line of every cmd and args within the bounds,
\* one of the tokens being long or none
InitSize ==
    /\ backend = "windows"
    /\ fdt = StdTable
    /\ cfd = [s \in Spawns |-> EmptyTable]
    /\ pipebuf = [s \in Spawns |-> [st \in Streams |-> <<>>]]
    /\ child = [s \in Spawns |-> NoChild]
    /\ hnd = [s \in Spawns |-> NoHandle]
    /\ nspawn = 0
    /\ pc = "idle"
    /\ fr = NoFrame
    /\ ret = NoRet
    /\ buffer = FreshBuffer
    /\ source = JUNK
    /\ wrote = [s \in Spawns |-> [st \in Streams |-> 0]]
    /\ got = [s \in Spawns |-> [st \in Streams |-> <<>>]]
    /\ everFalse = [s \in Spawns |-> FALSE]
    /\ cmd \in Strings(MaxCmdLen)
    /\ args \in ArgLists
    /\ cmdline = <<>>
    /\ argv = <<>>
    /\ qpc = "input"
    /\ \E t \in 0..Len(args), p \in PadLens :
          /\ p = 0 => t = 0
          /\ sz = [NoSize EXCEPT !.tok = t, !.pad = p]

NextSize == CommandLineBuffer

SpecSize == InitSize /\ [][NextSize]_vars

\* a caller whose close_process call runs on: the steps of the call in
\* progress are taken whenever they can be; nothing obliges a child to exit
LiveSpec ==
    SpecLife /\ WF_vars(CloseReapPosix) /\ WF_vars(CloseReapWin)
             /\ WF_vars(CallerResume)

\* a parent that keeps reading: it polls (timeout 0) both streams of its
\* child again and again with room for at least one byte, the call in
\* progress goes on whenever it can, and a read that can deliver data is
\* not failed by the system for ever
PollTimeouts == {0}

NextRead ==
    \/ StartProcessPosix
    \/ StartProcessWin
    \/ CallerResume
    \/ \E s \in Spawns : ChildExit(s)
    \/ \E s \in Spawns : ExecFails(s)
    \/ \E s \in Spawns, f \in {STDOUT_FILENO, STDERR_FILENO} : ChildWrite(s, f)
    \/ \E s \in Spawns, st \in {"out", "err"}, S \in BufSizes, t \in PollTimeouts :
          ReadPollPosix(s, st, S, t)
    \/ \E s \in Spawns, st \in {"out", "err"}, S \in BufSizes, t \in PollTimeouts,
          e \in PollErrnos : ReadPollFailsPosix(s, st, S, t, e)
    \/ \E s \in Spawns, S \in BufSizes, t \in PollTimeouts : ReadAvailPollPosix(s, S, t)
    \/ \E s \in Spawns, S \in BufSizes, t \in PollTimeouts, e \in PollErrnos :
          ReadAvailPollFailsPosix(s, S, t, e)
    \/ ReadStepPosix
    \/ \E e \in ReadErrnos : ReadFailsPosix(e)
    \/ \E s \in Spawns, st \in {"out", "err"}, S \in BufSizes, t \in PollTimeouts :
          ReadBeginWin(s, st, S, t)
    \/ ReadFileWin
    \/ \E s \in Spawns, S \in BufSizes, t \in PollTimeouts : ReadAvailWaitWin(s, S, t)
    \/ ReadAvailFileWin

FairRead ==
    /\ WF_vars(CallerResume)
    /\ WF_vars(ReadStepPosix \/ \E e \in ReadErrnos : ReadFailsPosix(e))
    /\ SF_vars(ReadStepPosix /\ ret'.val > 0)
    /\ WF_vars((ReadFileWin \/ ReadAvailFileWin)
               /\ pc' = "ret" /\ fr'.log[2] # "ERROR_OTHER")
    /\ \A st \in {"out", "err"} :
          SF_vars(\E s \in Spawns, S \in 2..MaxBuf, t \in PollTimeouts :
                     ReadPollPosix(s, st, S, t) /\ pc' = "read")
    /\ \A st \in {"out", "err"} :
          SF_vars(\E s \in Spawns, S \in 2..MaxBuf, t \in PollTimeouts :
                     ReadBeginWin(s, st, S, t) /\ pc' = "readfile")
    /\ SF_vars(ReadFileWin /\ ret'.val > 0)
    /\ SF_vars(ReadAvailFileWin /\ ret'.val > 0)

SpecRead == InitOne /\ [][NextRead]_vars /\ FairRead

\* a parent that keeps reading and probing: besides FairRead, it calls
\* is_running again and again, a poll that finds nothing to read returns,
\* and a child whose execvp failed goes on to lines 48-49
NextProbe ==
    \/ NextRead
    \/ \E s \in Spawns : IsRunningPosix(s)
    \/ \E s \in Spawns : IsRunningWin(s)

FairProbe ==
    /\ FairRead
    /\ WF_vars(\E s \in Spawns : ExecFails(s))
    /\ SF_vars(\E s \in Spawns : IsRunningPosix(s))
    /\ \A st \in {"out", "err"} :
          SF_vars(\E s \in Spawns, S \in 2..MaxBuf, t \in PollTimeouts :
                     ReadPollPosix(s, st, S, t) /\ pc' = "ret")

SpecProbe == InitOne /\ [][NextProbe]_vars /\ FairProbe

\* ======================================================================
\* Properties
\* ======================================================================
Returned(op) == pc = "ret" /\ ret.op = op

\* the objects of spawn s that the parent's table holds
OpenOf(s) == {f \in Fds : fdt[f].s = s}

\* C1: when start_process returns NULL, nothing the call created (pipe end,
\* process or thread handle) is open in the parent any more.
C1_FailedStartLeavesNothingOpen ==
    (Returned("start_process") /\ ret.val = NULL) => OpenOf(ret.h) = {}

\* C2: when start_process returns a handle, the child exists, the three
\* fields are distinct open descriptors on the parent's ends of the three
\* pipes (write end of stdin, read ends of stdout and stderr), and the
\* parent holds no child-side end and no thread handle; on Windows hProcess
\* is the open process handle.
C2_HandleFullyInitialized ==
    (Returned("start_process") /\ ret.val # NULL) =>
        LET s == ret.val
            h == hnd[s]
        IN  /\ h.st = "live"
            /\ child[s].st \in {"running", "zombie"} /\ child[s].pid = h.pid
            /\ {h.input_fd, h.output_fd, h.error_fd} \subseteq Fds
            /\ Cardinality({h.input_fd, h.output_fd, h.error_fd}) = 3
            /\ IsEnd(fdt[h.input_fd], s, "in", "w")
            /\ IsEnd(fdt[h.output_fd], s, "out", "r")
            /\ IsEnd(fdt[h.error_fd], s, "err", "r")
            /\ \A f \in Fds :
                  /\ ~IsEnd(fdt[f], s, "in", "r")
                  /\ ~IsEnd(fdt[f], s, "out", "w")
                  /\ ~IsEnd(fdt[f], s, "err", "w")
                  /\ fdt[f] # ThreadH(s)
            /\ OpenOf(s) = {h.input_fd, h.output_fd, h.error_fd}
                           \cup (IF backend = "windows" THEN {h.hProcess} ELSE {})
            /\ backend = "windows" => fdt[h.hProcess] = ProcH(s)
            /\ backend = "posix" => h.hProcess = -1

\* a second handle is returned while the first is live
C2_Witness ==
    /\ Returned("start_process") /\ ret.val # NULL
    /\ \E s \in Spawns : s # ret.val /\ Live(s)

\* the bytes the child of spawn s wrote to stream st so far
Written(s, st) == [i \in 1..wrote[s][st] |-> i]

Prefix(a, b) == Len(a) <= Len(b) /\ a = SubSeq(b, 1, Len(a))

ReadsArePrefix ==
    \A s \in Spawns, st \in {"out", "err"} : Prefix(got[s][st], Written(s, st))

\* every written byte is eventually returned, unless the parent has ended
ReadsDeliver ==
    \A s \in Spawns, st \in {"out", "err"}, k \in 1..MaxOut :
        (wrote[s][st] >= k) ~> (Len(got[s][st]) >= k \/ pc = "crashed")

\* C3: the positive-length results attributed to a stream, concatenated,
\* are always a prefix of what the child wrote to that stream, and if the
\* parent keeps reading every written byte is eventually returned.
C3_NoByteLostAndAllDelivered == []ReadsArePrefix /\ ReadsDeliver

\* C3 on the POSIX backend alone
C3_OnPosix ==
    /\ []ReadsArePrefix
    /\ \A s \in Spawns, st \in {"out", "err"}, k \in 1..MaxOut :
          (backend = "posix" /\ wrote[s][st] >= k) ~> (Len(got[s][st]) >= k)

\* a read call is at a step that cannot go on until the child writes or
\* ends: ReadFile on an empty pipe that still has a writer.  (POSIX read()
\* on the O_NONBLOCK descriptors answers at once.)
ReadBlocked ==
    /\ backend = "windows" /\ pc \in {"readfile", "ra_readfile"}
    /\ LET o == fdt[FieldOf(fr.h, fr.st)]
       IN  pipebuf[o.s][o.st] = <<>> /\ HasWriter(o.s, o.st)

\* C4: a read call with timeout_ms >= 0 is never at a step that waits for
\* the child without a bound.
C4_TimedReadNeverBlocks ==
    (fr.op \in ReadOps /\ fr.timeout >= 0) => ~ReadBlocked

\* C5: a read call with buffer size S that returns n >= 0 has n <= S-1, has
\* stored at most S-1 bytes, and left the terminator in buffer[n], n = 0
\* included.
C5_ReadTerminatesBuffer ==
    (pc = "ret" /\ ret.op \in ReadOps /\ ret.val >= 0) =>
        /\ ret.val <= fr.S - 1
        /\ fr.stored <= fr.S - 1
        /\ buffer[ret.val] = 0

\* C6: write_to_process never returns a short count: POSIX returns N, after
\* the N bytes were accepted in order, or -1; Windows returns N, -1, or 0
\* when the system reports the pipe closed.
C6_WriteNeverShort ==
    Returned("write_to_process") =>
        /\ ~(0 < ret.val /\ ret.val < fr.len)
        /\ \/ ret.val = fr.len /\ fr.acc = Data(fr.len)
           \/ ret.val = -1
           \/ backend = "windows" /\ ret.val = 0 /\ fr.st = "pipe closed"

\* a POSIX write of MaxWrite bytes returned its full count after the child
\* took bytes out of the pipe
C6_Witness ==
    /\ backend = "posix" /\ Returned("write_to_process")
    /\ fr.len = MaxWrite /\ ret.val = MaxWrite
    /\ Len(pipebuf[ret.h]["in"]) < MaxWrite

\* C7: is_running returns true while the child has not exited, and never
\* returns true on a handle after it has returned false on it.
C7_IsRunningNeverReverts ==
    Returned("is_running") =>
        /\ child[ret.h].st = "running" => ret.val = 1
        /\ ret.val = 1 => ~everFalse[ret.h]

\* C8: on POSIX the exit status of a live handle's child stays pending
\* until close_process: no other operation reaps the child.
C8_IsRunningDoesNotReap ==
    \A s \in Spawns :
        (backend = "posix" /\ Live(s)) => child[s].st # "reaped"

\* C9: a close_process call that has begun eventually returns, with the
\* endpoints closed and the handle released.
C9_CloseEventuallyReturns ==
    (pc = "reap") ~> (Returned("close_process") /\ hnd[ret.h].st = "freed")

\* the steps of close_process in order, as the backend performs them
CloseSteps(waitResult) ==
    <<"close input_fd", "close output_fd", "close error_fd">>
    \o (IF backend = "posix" THEN <<"waitpid", "free">>
        ELSE <<"TerminateProcess", "WaitForSingleObject", waitResult,
               "CloseHandle hProcess", "free">>)

EndpointsOpen(s) ==
    /\ IsEnd(fdt[hnd[s].input_fd], s, "in", "w")
    /\ IsEnd(fdt[hnd[s].output_fd], s, "out", "r")
    /\ IsEnd(fdt[hnd[s].error_fd], s, "err", "r")

EndpointsClosed(s) ==
    \A f \in Fds : fdt[f].k = "pipe" => fdt[f].s # s

\* C10: close_process closes the three endpoints once each, then reclaims
\* the process (POSIX: waitpid; Windows: terminate, wait with either
\* result, release the process handle), then frees the handle; and while
\* the parent runs, the endpoints of a live handle stay open until its
\* close_process call.
C10_CloseOrder ==
    /\ \A s \in Spawns :
          (Live(s) /\ pc \notin {"killed", "crashed"}
                   /\ ~(fr.op = "close_process" /\ fr.h = s)) => EndpointsOpen(s)
    /\ pc = "reap" =>
          /\ fr.log = <<"close input_fd", "close output_fd", "close error_fd">>
          /\ EndpointsClosed(fr.h)
          /\ Live(fr.h)
          /\ backend = "windows" => fdt[hnd[fr.h].hProcess] = ProcH(fr.h)
    /\ Returned("close_process") =>
          /\ fr.log \in {CloseSteps("WAIT_OBJECT_0"), CloseSteps("WAIT_TIMEOUT")}
          /\ hnd[ret.h].st = "freed"
          /\ OpenOf(ret.h) = {}

\* a Windows close_process returned although its 5 second wait timed out
C10_Witness ==
    /\ Returned("close_process") /\ backend = "windows"
    /\ fr.log = CloseSteps("WAIT_TIMEOUT")

\* C11: the command line, split by the standard rule, gives back exactly
\* cmd followed by the arguments.
C11_QuotingRoundTrip ==
    qpc = "split" => argv = <<cmd>> \o args

\* the index just after the run of backslashes that position p of str is in
RunEnd(str, p) == p + CountBackslashes(str, p)

\* what a quoted token holds for the character at position p of str
QuotedPiece(str, p) ==
    IF str[p] = BSLASH
    THEN (IF RunEnd(str, p) > Len(str) \/ str[RunEnd(str, p)] = QUOTE
          THEN <<BSLASH, BSLASH>> ELSE <<BSLASH>>)
    ELSE IF str[p] = QUOTE THEN <<BSLASH, QUOTE>>
    ELSE <<str[p]>>

RECURSIVE QuotedBody(_, _)
QuotedBody(str, p) ==
    IF p > Len(str) THEN <<>> ELSE QuotedPiece(str, p) \o QuotedBody(str, p + 1)

RuleToken(str) ==
    IF str = <<>> \/ \E k \in 1..Len(str) : str[k] \in {SP, TAB, NL, VT}
    THEN <<QUOTE>> \o QuotedBody(str, 1) \o <<QUOTE>>
    ELSE str

RECURSIVE RuleLine(_)
RuleLine(tokens) ==
    IF Len(tokens) = 1 THEN RuleToken(tokens[1])
    ELSE RuleLine(SubSeq(tokens, 1, Len(tokens) - 1)) \o <<SP>>
         \o RuleToken(tokens[Len(tokens)])

\* C19: the command line is the tokens cmd, args[0], ... joined by one
\* space, a token being quoted iff it is empty or holds a space, tab,
\* newline or vertical tab, and a quoted token holding its characters with
\* every backslash of a run that a quote or the token's end follows
\* doubled, every quote preceded by a backslash, and all else verbatim.
C19_CommandLineBitExact ==
    qpc \in {"built", "split"} => cmdline = RuleLine(<<cmd>> \o args)

\* the token "a \" after the command a: its backslash is doubled before
\* the closing quote
C19_Witness ==
    /\ qpc = "built" /\ cmd = <<"a">> /\ args = << <<"a", SP, BSLASH>> >>
    /\ cmdline = <<"a", SP, QUOTE, "a", SP, BSLASH, BSLASH, QUOTE>>

\* C12: a read_available call that returns n > 0 took its n bytes from the
\* front of one stream's pipe, left the other stream's pipe as it was, and
\* set *source to 1 for the output stream and to 2 for the error stream.
C12_ReadAvailableOneSource ==
    [][(pc # "ret" /\ pc' = "ret" /\ ret'.op = "read_available" /\ ret'.val > 0) =>
          \E st \in {"out", "err"} :
              LET other == IF st = "out" THEN "err" ELSE "out"
                  n == ret'.val
              IN  /\ source' = (IF st = "out" THEN 1 ELSE 2)
                  /\ n <= Len(pipebuf[ret'.h][st])
                  /\ pipebuf'[ret'.h][st] = Drop(pipebuf[ret'.h][st], n)
                  /\ pipebuf'[ret'.h][other] = pipebuf[ret'.h][other]
                  /\ \A i \in 1..n : buffer'[i - 1] = pipebuf[ret'.h][st][i]
      ]_vars

\* read_available returned data of the output stream while the error
\* stream had data too
C12_Witness ==
    /\ Returned("read_available") /\ ret.val > 0 /\ source = 1
    /\ Len(pipebuf[ret.h]["err"]) = MaxOut - ret.val

\* the system's answers that mean "no data before the timeout" and "end of
\* stream"
TimeoutOrEof ==
    {<<"poll", "timeout">>, <<"poll", "POLLHUP">>, <<"read", "eof">>,
     <<"ReadFile", "ERROR_BROKEN_PIPE">>}

\* a read_from_output / read_from_error call with timeout_ms >= 0 is inside
\* its read step
TimedReadInProgress ==
    /\ pc \in {"read", "readfile"}
    /\ fr.op \in {"read_from_output", "read_from_error"}
    /\ fr.timeout >= 0

\* C13: read_from_output and read_from_error return 0 when the system
\* answers timeout or end of stream, and a call with a timeout does come to
\* its return.
C13_TimeoutAndEofReturnZero ==
    /\ []((pc = "ret" /\ ret.op \in {"read_from_output", "read_from_error"}
           /\ fr.log \in TimeoutOrEof) => ret.val = 0)
    /\ TimedReadInProgress ~> (pc \in {"ret", "crashed"})

\* the failures of the wait primitive, and the read failures that are not
\* would-block, interrupted or peer-closed
HardFailures ==
    {<<"poll", e>> : e \in PollErrnos}
    \cup {<<"WaitForMultipleObjects", "WAIT_FAILED">>, <<"read", "EIO">>,
          <<"ReadFile", "ERROR_OTHER">>}

\* C14: a read call that returns because its wait primitive failed, or its
\* read failed hard, returns -1.
C14_HardFailureReturnsMinusOne ==
    (pc = "ret" /\ ret.op \in ReadOps /\ fr.log \in HardFailures) => ret.val = -1

\* C15: a read call whose read() would block or was interrupted does not
\* return -1.
C15_SoftFailureNotMinusOne ==
    (pc = "ret" /\ ret.op \in ReadOps
     /\ fr.log \in {<<"read", "EAGAIN">>, <<"read", "EINTR">>}) => ret.val # -1

\* C16: when the system reports that the child's stdin pipe has no reader,
\* write_to_process returns -1 on POSIX and 0 on Windows, and the calling
\* process goes on running.
C16_BrokenPipeIsAReturnValue ==
    /\ pc # "killed"
    /\ (Returned("write_to_process") /\ fr.st = "pipe closed") =>
           ret.val = (IF backend = "posix" THEN -1 ELSE 0)


\* C17: on POSIX, when the pipes and fork succeed and execvp fails,
\* start_process returns what it returns when execvp succeeds (a handle,
\* not NULL, with its three endpoints open, unless malloc failed); the child
\* ends with a non-zero exit status (or by SIGPIPE when the parent has
\* closed the handle before perror); and the parent that keeps probing and
\* reading sees an ordinary exit: is_running returns false, and
\* read_from_output and read_from_error return 0 at end-of-stream
ExecFailed(s) == child[s].exec = "failed"

C17_StartReturnsHandle ==
    (Returned("start_process") /\ ExecFailed(ret.h) /\ fr.log = <<"none">>)
        => /\ ret.val # NULL
           /\ Live(ret.h)
           /\ hnd[ret.h].input_fd \in OpenOf(ret.h)
           /\ hnd[ret.h].output_fd \in OpenOf(ret.h)
           /\ hnd[ret.h].error_fd \in OpenOf(ret.h)

C17_ChildEndsNonZero ==
    \A s \in Spawns :
        (ExecFailed(s) /\ child[s].st \in {"zombie", "reaped"})
            => \/ child[s].status = EXIT_FAILURE /\ child[s].status # 0
               \/ child[s].sig = "SIGPIPE" /\ hnd[s].error_fd \notin OpenOf(s)

EofRead(op, s) ==
    Returned(op) /\ ret.h = s /\ ret.val = 0 /\ fr.log = <<"poll", "POLLHUP">>

C17_ExecFailureIsAnOrdinaryExit ==
    /\ [](C17_StartReturnsHandle /\ C17_ChildEndsNonZero)
    /\ \A s \in Spawns :
          /\ (ExecFailed(s) /\ Live(s))
                ~> (Returned("is_running") /\ ret.h = s /\ ret.val = 0)
          /\ (ExecFailed(s) /\ Live(s)) ~> EofRead("read_from_output", s)
          /\ (ExecFailed(s) /\ Live(s)) ~> EofRead("read_from_error", s)

C17_Witness ==
    \E s \in Spawns :
        /\ EofRead("read_from_error", s)
        /\ ExecFailed(s) /\ child[s].status = EXIT_FAILURE
        /\ everFalse[s]
        /\ got[s]["err"] # <<>>

\* the read calls on the output stream have returned the whole message the
\* program of spawn s wrote to its output
MessageRead(s) ==
    /\ child[s].exec = "ok"
    /\ wrote[s]["out"] > 0
    /\ got[s]["out"] = Written(s, "out")

\* an is_running call on handle s is made in this step
Probes(s) == pc = "idle" /\ pc' = "ret" /\ ret'.op = "is_running" /\ ret'.h = s

\* C18 as stated: once read_from_output has returned the message, an
\* is_running call returns false, wherever the child's exit falls.
C18_ProbeAfterMessage ==
    [][\A s \in Spawns : (Probes(s) /\ MessageRead(s)) => ret'.val = 0]_vars

\* C18, amended: once read_from_output has returned the message and the
\* child has exited, an is_running call returns false.
C18_ProbeAfterMessageAndExit ==
    [][\A s \in Spawns :
          (Probes(s) /\ MessageRead(s) /\ child[s].st # "running")
              => ret'.val = 0]_vars

C18_Witness ==
    /\ Returned("is_running") /\ ret.val = 0
    /\ MessageRead(ret.h)
    /\ child[ret.h].st = "reaped"
    /\ Live(ret.h)

\* C20: on POSIX, whatever the parent's descriptors 0, 1, 2 were when
\* start_process was called, the child it forked reaches execvp with
\* descriptor 0 on the read end of its stdin pipe, 1 on the write end of its
\* stdout pipe, 2 on the write end of its stderr pipe, and with no other
\* descriptor referring to the three pipes of the call.
ChildFdsAtExec(s) ==
    /\ IsEnd(cfd[s][STDIN_FILENO], s, "in", "r")
    /\ IsEnd(cfd[s][STDOUT_FILENO], s, "out", "w")
    /\ IsEnd(cfd[s][STDERR_FILENO], s, "err", "w")
    /\ \A f \in Fds \ {STDIN_FILENO, STDOUT_FILENO, STDERR_FILENO} :
          ~(cfd[s][f].k = "pipe" /\ cfd[s][f].s = s)

C20_ChildStandardDescriptors ==
    (backend = "posix" /\ Returned("start_process")
        /\ child[ret.h].st = "running")
        => ChildFdsAtExec(ret.h)

\* the same for a parent whose descriptors 0, 1, 2 are all open
C20_WhenParentHasStandardDescriptors ==
    (backend = "posix" /\ Returned("start_process")
        /\ child[ret.h].st = "running"
        /\ \A f \in {STDIN_FILENO, STDOUT_FILENO, STDERR_FILENO} : fdt[f] = Tty)
        => ChildFdsAtExec(ret.h)

\* the descriptors of handle s that refer to its parent-side endpoints
EndpointsOf(s) == {hnd[s].input_fd, hnd[s].output_fd, hnd[s].error_fd}

\* no child spawned for another handle holds a copy of a parent-side end of
\* the pipes of handle a
NoForeignCopy(a) ==
    \A b \in Spawns \ {a} :
        child[b].st = "running" =>
            /\ ~Holds(cfd[b], a, "in", "w")
            /\ ~Holds(cfd[b], a, "out", "r")
            /\ ~Holds(cfd[b], a, "err", "r")

\* C21: the parent-side endpoints of a live handle are held open only by
\* the parent through that handle: no other live handle names the same
\* descriptors, no child spawned for another handle holds a copy of them,
\* and once close_process has closed the input endpoint of handle A nothing
\* holds the write end of A's stdin pipe (A's child sees end-of-input).
C21_EndpointsExclusivelyOwned ==
    /\ \A a \in Spawns : Live(a) => NoForeignCopy(a)
    /\ \A a, b \in Spawns :
          (a # b /\ Live(a) /\ Live(b)) => EndpointsOf(a) \cap EndpointsOf(b) = {}
    /\ pc = "reap" => ~HasWriter(fr.h, "in")

\* the same on the Windows backend alone
C21_OnWindows == backend = "windows" => C21_EndpointsExclusivelyOwned

\* C22: create_command_line_ex never writes past the buffer it allocates:
\* the bytes it stores, the final terminator included, are at most the
\* length + 1 bytes malloc was asked for.
C22_NeverWritesPastBuffer ==
    qpc = "filled" => sz.written <= sz.alloc

\* the same for the inputs whose first pass stays within an int; there the
\* bytes stored are the characters of the command line and a terminator
C22_WhenLengthFitsInt ==
    (qpc = "filled" /\ sz.pad = 0)
        => /\ sz.written <= sz.alloc
           /\ sz.written = Len(create_command_line_ex(cmd, args)) + 1
====
